---- MODULE Spec2Model ----
(***************************************************************************)
(* DeepSIM frontend: the flowsheet canvas (FlowsheetCanvas), its undo/redo *)
(* history, the properties panel's edit buffer, the backend push/pull, the *)
(* simulation trigger and the chat panel, as one state machine.            *)
(*                                                                         *)
(* One action is one browser event (a click, a key, a network response)    *)
(* handled to completion: the handler runs against the values captured by  *)
(* the last render, its state updates are applied, the components render   *)
(* again and the effects of that render run.  JavaScript objects that are  *)
(* shared by reference (node.data) live in `heap` and are named by their   *)
(* index, so that aliasing between the live graph, the history snapshots   *)
(* and the selected node is part of the state.                             *)
(***************************************************************************)
EXTENDS Integers, Sequences, FiniteSets, TLC

\* ---------------------------------------------------------------- bounds
MaxNodes == 2
MaxObjs == 3
MaxHist == 3
MaxClock == 1
MaxInFlight == 2
MaxFlowsheets == 1
MaxChats == 1
MaxRuns == 2

\* ------------------------------------------------------------- constants
Null == <<>>

UNIT_TYPES == {"Reactor", "DistillationColumn"}

toLowerCase(unitType) ==
  CASE unitType = "Reactor" -> "reactor"
    [] unitType = "DistillationColumn" -> "distillationcolumn"

NoParams == [k \in {} |-> 0]

\* addUnit's defaultParams for a distillation column; refluxRatio 2.0 and
\* trayEfficiency 0.75 are kept in hundredths.
DistillationDefaults ==
  [stages |-> 20, refluxRatio |-> 200, feedStage |-> 10,
   distillateRate |-> 50, pressure |-> 101325, trayEfficiency |-> 75]

defaultParams(unitType) ==
  IF unitType = "DistillationColumn" THEN DistillationDefaults ELSE NoParams

nodeType(unitType) ==
  IF unitType = "DistillationColumn" THEN "distillationColumn" ELSE "unit"

InitialPosition == <<300, 300>>
DragPositions == {<<100, 100>>}

\* ----------------------------------------------------------------- state
VARIABLES
  nodes,          \* useNodesState: the live node array
  edges,          \* useEdgesState: the live edge array
  heap,           \* node.data objects, by reference
  history,        \* useState: snapshots {nodes, edges}
  historyIndex,   \* useState: cursor, -1 when nothing was saved
  addUnitEnv,     \* what the memoized addUnit callback captured
  now,            \* Date.now()
  selectedNode,   \* App: the node object handed to onNodeSelect
  flowsheetId,    \* App: the bound flowsheet id
  parameters,     \* PropertiesPanel buffer
  name,           \* PropertiesPanel buffer
  hasChanges,     \* PropertiesPanel dirty flag
  posts,          \* POST /flowsheet requests in flight
  gets,           \* GET /flowsheet/{id} requests in flight
  puts,           \* PUT /flowsheet/{id} requests in flight, in issue order
  backend,        \* the persisted flowsheets, by id
  lastPush,       \* the PUT request issued last
  isSimulating,   \* App: a simulation run is in progress
  simulationResults, \* App: the visible result
  sims,           \* POST /simulate requests in flight
  runs,           \* the number of POST /simulate requests issued
  messages,       \* ChatPanel: the conversation
  input,          \* ChatPanel: the text box
  isLoading,      \* ChatPanel: a chat request is in progress
  chats,          \* POST /llm/chat requests in flight
  lastOp,         \* the handler that ran last
  track,          \* commit / undo / redo bookkeeping for the last commit
  apiResponse,    \* ApiService.request: what fetch settled with
  apiOutcome,     \* ApiService.request: what the last call returned or threw
  reloading       \* window.location.reload() was called; the page is leaving

canvasVars == <<nodes, edges, heap, history, historyIndex, addUnitEnv>>
graphVars == <<nodes, edges, heap>>
historyVars == <<history, historyIndex>>
editorVars == <<selectedNode, parameters, name, hasChanges>>
bufferVars == <<parameters, name, hasChanges>>
pushVars == <<puts, lastPush>>
simVars == <<isSimulating, simulationResults, sims, runs>>
chatVars == <<messages, input, isLoading, chats>>
panelVars == <<simVars, chatVars>>
serverVars == <<posts, gets, backend, panelVars>>
netVars == <<posts, gets, puts, backend, lastPush, panelVars>>
vars == <<nodes, edges, heap, history, historyIndex, addUnitEnv, now,
          selectedNode, flowsheetId, parameters, name, hasChanges,
          posts, gets, puts, backend, lastPush,
          isSimulating, simulationResults, sims, runs,
          messages, input, isLoading, chats, lastOp, track,
          apiResponse, apiOutcome, reloading>>
apiVars == <<apiResponse, apiOutcome>>

\* --------------------------------------------------------------- helpers
\* React Flow keeps the nodes it was given in a Map keyed by id: getNodes()
\* lists one node per id, at the place of the id's first occurrence, with the
\* value of its last occurrence.
Indices(s) == [i \in 1..Len(s) |-> i]

FirstOfId(nds, i) == \A j \in 1..(i - 1) : nds[j].id # nds[i].id

LastWithId(nds, id) ==
  nds[CHOOSE i \in 1..Len(nds) :
        /\ nds[i].id = id
        /\ \A j \in (i + 1)..Len(nds) : nds[j].id # id]

getNodes(nds) ==
  LET firsts == SelectSeq(Indices(nds), LAMBDA i : FirstOfId(nds, i))
  IN [k \in 1..Len(firsts) |-> LastWithId(nds, nds[firsts[k]].id)]

getEdges(eds) == eds

NodeIds(nds) == {nds[i].id : i \in 1..Len(nds)}

\* The graph with every node.data reference followed (structural value).
Resolve(nds, hp) ==
  [i \in 1..Len(nds) |->
     [id |-> nds[i].id, type |-> nds[i].type, position |-> nds[i].position,
      data |-> hp[nds[i].data]]]

Live == [nodes |-> Resolve(nodes, heap), edges |-> edges]

NoTrack == [phase |-> "idle", pre |-> <<>>, post |-> <<>>, truncated |-> FALSE]

\* Bookkeeping of a buffer that was dropped: the buffer as it was and the
\* selection it belonged to.
TrackBuffer(phase) ==
  IF hasChanges
  THEN [phase |-> phase, pre |-> <<parameters, name>>, post |-> selectedNode,
        truncated |-> FALSE]
  ELSE NoTrack

\* useCallback(addUnit, [nodes.length, setNodes, flowsheetId, saveToHistory]):
\* the callback, and the updateFlowsheetInBackend it closes over, is the one
\* of the last render in which one of those dependencies changed
\* (saveToHistory changes with historyIndex).
RenderAddUnit(env, nds, eds, fid, hidx) ==
  IF env.len = Len(nds) /\ env.flowsheetId = fid /\ env.historyIndex = hidx
  THEN env
  ELSE [len |-> Len(nds), flowsheetId |-> fid, historyIndex |-> hidx,
        nodes |-> nds, edges |-> eds]

\* ------------------------------------------------------------------ sync
\* The request body that updateFlowsheetInBackend builds from the nodes and
\* edges its closure holds.
Units(nds, hp) ==
  [i \in 1..Len(nds) |->
     [id |-> nds[i].id, type |-> hp[nds[i].data].unitType,
      name |-> hp[nds[i].data].name, position |-> nds[i].position,
      parameters |-> hp[nds[i].data].parameters,
      inlet_ports |-> <<"in1">>, outlet_ports |-> <<"out1">>]]

Connections(eds) ==
  [i \in 1..Len(eds) |->
     [id |-> eds[i].id, from_unit |-> eds[i].source, from_port |-> "out1",
      to_unit |-> eds[i].target, to_port |-> "in1",
      stream_id |-> <<"stream", eds[i].id>>]]

\* updateFlowsheetInBackend: the PUT requests it issues (none, or one).
updateFlowsheetInBackend(fid, nds, eds, hp) ==
  IF fid = Null THEN <<>>
  ELSE <<[id |-> fid, units |-> Units(nds, hp), connections |-> Connections(eds)]>>

\* useEffect(..., [nodes, edges, updateFlowsheetInBackend]).
PushEffect(fid, nds, eds, hp) ==
  IF Len(nds) > 0 \/ Len(eds) > 0
  THEN updateFlowsheetInBackend(fid, nds, eds, hp)
  ELSE <<>>

\* The render that follows a handler: the memoized callbacks are refreshed and,
\* when nodes, edges or flowsheetId changed, the push effect runs.
Rendered(direct, changed, nds, eds, hp, fid, hidx) ==
  LET issued == direct \o
                (IF changed THEN PushEffect(fid, nds, eds, hp) ELSE <<>>)
  IN /\ addUnitEnv' = RenderAddUnit(addUnitEnv, nds, eds, fid, hidx)
     /\ puts' = puts \o issued
     /\ lastPush' = IF issued = <<>> THEN lastPush
                    ELSE <<issued[Len(issued)]>>
     /\ Len(puts') <= MaxInFlight

Greeting == [type |-> "assistant", content |-> "Hello"]

\* ------------------------------------------------------------------ init
Init ==
  /\ nodes = <<>>
  /\ edges = <<>>
  /\ heap = <<>>
  /\ history = <<>>
  /\ historyIndex = -1
  /\ addUnitEnv = [len |-> 0, flowsheetId |-> Null, historyIndex |-> -1,
                   nodes |-> <<>>, edges |-> <<>>]
  /\ now = 0
  /\ selectedNode = Null
  /\ flowsheetId = Null
  /\ parameters = NoParams
  /\ name = <<>>
  /\ hasChanges = FALSE
  /\ posts = 0
  /\ gets = <<>>
  /\ puts = <<>>
  /\ backend = <<>>
  /\ lastPush = Null
  /\ isSimulating = FALSE
  /\ simulationResults = Null
  /\ sims = <<>>
  /\ runs = 0
  /\ messages = <<Greeting>>
  /\ input = ""
  /\ isLoading = FALSE
  /\ chats = <<>>
  /\ lastOp = "init"
  /\ track = NoTrack
  /\ apiResponse = Null
  /\ apiOutcome = Null
  /\ reloading = FALSE

\* --------------------------------------------------------------- history
\* saveToHistory: the snapshot is what getNodes()/getEdges() return, i.e. the
\* graph of the last render; history is cut after the captured historyIndex.
\* Variant: the history is not cut after the cursor.
saveToHistoryNoCut(hist, hidx, nds, eds) ==
  Append(hist, [nodes |-> getNodes(nds), edges |-> getEdges(eds)])

saveToHistory(hist, hidx, nds, eds) ==
  Append(SubSeq(hist, 1, IF hidx + 1 <= Len(hist) THEN hidx + 1 ELSE Len(hist)),
         [nodes |-> getNodes(nds), edges |-> getEdges(eds)])

CanCommit == historyIndex + 2 <= MaxHist

TrackCommit(nds2, eds2, hp2) ==
  [phase |-> "committed",
   pre |-> Live,
   post |-> [nodes |-> Resolve(nds2, hp2), edges |-> eds2],
   truncated |-> historyIndex < Len(history) - 1]

Tick ==
  /\ now < MaxClock
  /\ now' = now + 1
  /\ UNCHANGED <<canvasVars, editorVars, flowsheetId, netVars, lastOp, track,
                 apiVars, reloading>>
\* ---------------------------------------------------------------- canvas
\* Variant: adding a unit drops the edges.
addUnitClearsEdges ==
  \E unitType \in UNIT_TYPES :
    LET id == <<toLowerCase(unitType), now>>
        ref == Len(heap) + 1
        newNode == [id |-> id, type |-> nodeType(unitType),
                    position |-> InitialPosition, data |-> ref]
    IN /\ Len(nodes) < MaxNodes
       /\ Len(heap) < MaxObjs
       /\ CanCommit
       /\ heap' = Append(heap, [unitType |-> unitType,
                                name |-> <<unitType, Len(nodes) + 1>>,
                                parameters |-> defaultParams(unitType)])
       /\ nodes' = Append(nodes, newNode)
       /\ edges' = <<>>
       /\ history' = saveToHistory(history, historyIndex, nodes, edges)
       /\ historyIndex' = historyIndex + 1
       /\ Rendered(updateFlowsheetInBackend(flowsheetId, addUnitEnv.nodes,
                                            addUnitEnv.edges, heap),
                   TRUE, nodes', edges', heap', flowsheetId, historyIndex')
       /\ UNCHANGED apiVars
       /\ UNCHANGED reloading
       /\ lastOp' = "addUnit"
       /\ track' = TrackCommit(nodes', edges', heap')
       /\ UNCHANGED <<now, editorVars, flowsheetId, serverVars>>

\* Two clicks on palette buttons that one batch of updates serves (both
\* dispatched in one task, so that no render comes between them): both calls
\* run the addUnit and the saveToHistory of the same render, with the
\* historyIndex, the nodes.length and the store that render captured, and the
\* updaters they queue are applied in order.
addUnitBatched ==
  \E first \in UNIT_TYPES, second \in UNIT_TYPES :
    LET ref == Len(heap) + 1
        newNode(unitType, r) ==
          [id |-> <<toLowerCase(unitType), now>>, type |-> nodeType(unitType),
           position |-> InitialPosition, data |-> r]
        newData(unitType) ==
          [unitType |-> unitType, name |-> <<unitType, Len(nodes) + 1>>,
           parameters |-> defaultParams(unitType)]
        direct == updateFlowsheetInBackend(flowsheetId, addUnitEnv.nodes,
                                           addUnitEnv.edges, heap)
    IN /\ Len(nodes) + 2 <= MaxNodes
       /\ Len(heap) + 2 <= MaxObjs
       /\ historyIndex + 3 <= MaxHist
       /\ heap' = heap \o <<newData(first), newData(second)>>
       /\ nodes' = nodes \o <<newNode(first, ref), newNode(second, ref + 1)>>
       /\ edges' = edges
       /\ history' = saveToHistory(
                        saveToHistory(history, historyIndex, nodes, edges),
                        historyIndex, nodes, edges)
       /\ historyIndex' = historyIndex + 2
       /\ Rendered(direct \o direct, TRUE, nodes', edges', heap', flowsheetId,
                   historyIndex')
       /\ UNCHANGED apiVars
       /\ UNCHANGED reloading
       /\ lastOp' = "addUnitBatched"
       /\ track' = NoTrack
       /\ UNCHANGED <<now, editorVars, flowsheetId, serverVars>>

\* addUnit: the palette adds a unit of the chosen type.
addUnit ==
  \E unitType \in UNIT_TYPES :
    LET id == <<toLowerCase(unitType), now>>
        ref == Len(heap) + 1
        newNode == [id |-> id, type |-> nodeType(unitType),
                    position |-> InitialPosition, data |-> ref]
    IN /\ Len(nodes) < MaxNodes
       /\ Len(heap) < MaxObjs
       /\ CanCommit
       /\ heap' = Append(heap, [unitType |-> unitType,
                                name |-> <<unitType, Len(nodes) + 1>>,
                                parameters |-> defaultParams(unitType)])
       /\ nodes' = Append(nodes, newNode)
       /\ edges' = edges
       /\ history' = saveToHistory(history, historyIndex, nodes, edges)
       /\ historyIndex' = historyIndex + 1
       /\ Rendered(updateFlowsheetInBackend(flowsheetId, addUnitEnv.nodes,
                                            addUnitEnv.edges, heap),
                   TRUE, nodes', edges', heap', flowsheetId, historyIndex')
       /\ UNCHANGED apiVars
       /\ UNCHANGED reloading
       /\ lastOp' = "addUnit"
       /\ track' = TrackCommit(nodes', edges', heap')
       /\ UNCHANGED <<now, editorVars, flowsheetId, serverVars>>

\* The handles a node renders, by node type: UnitNode has one target and one
\* source handle without id ("" stands for no id), DistillationColumnNode has
\* handles with ids, of which the feed inlet and the distillate and bottoms
\* outlets are modelled.
NoHandle == ""

Handles(type) ==
  IF type = "distillationColumn"
  THEN {[id |-> "feed", type |-> "target"],
        [id |-> "distillate", type |-> "source"],
        [id |-> "bottoms", type |-> "source"]}
  ELSE {[id |-> NoHandle, type |-> "target"],
        [id |-> NoHandle, type |-> "source"]}

\* connectionMode = ConnectionMode.Loose: React Flow accepts a connection from
\* a handle to any handle but itself (same node and same handle id).
ValidConnection(source, sourceHandle, target, targetHandle) ==
  source # target \/ sourceHandle # targetHandle

\* The Connection React Flow hands to onConnect for a drag from handle `from`
\* of node a to handle `to` of node b: a drag that starts at a target handle
\* makes the node it started from the target.
Connection(a, from, b, to) ==
  IF from.type = "target"
  THEN [source |-> b, sourceHandle |-> to.id,
        target |-> a, targetHandle |-> from.id]
  ELSE [source |-> a, sourceHandle |-> from.id,
        target |-> b, targetHandle |-> to.id]

EdgeId(source, sourceHandle, target, targetHandle) ==
  <<"reactflow__edge", source, sourceHandle, target, targetHandle>>

\* Variant: the connection is appended without looking for an existing one.
rfAddEdgeAlways(params, eds) ==
  Append(eds, [id |-> EdgeId(params.source, params.sourceHandle,
                             params.target, params.targetHandle),
               source |-> params.source, sourceHandle |-> params.sourceHandle,
               target |-> params.target, targetHandle |-> params.targetHandle,
               type |-> "undefined"])

\* reactflow addEdge: the array itself when the connection exists already.
rfAddEdge(params, eds) ==
  IF \E i \in 1..Len(eds) :
       /\ eds[i].source = params.source
       /\ eds[i].target = params.target
       /\ eds[i].sourceHandle = params.sourceHandle
       /\ eds[i].targetHandle = params.targetHandle
  THEN eds
  ELSE Append(eds, [id |-> EdgeId(params.source, params.sourceHandle,
                                  params.target, params.targetHandle),
                    source |-> params.source,
                    sourceHandle |-> params.sourceHandle,
                    target |-> params.target,
                    targetHandle |-> params.targetHandle,
                    type |-> "undefined"])

onConnect ==
  \E a \in 1..Len(nodes), b \in 1..Len(nodes) :
    \E from \in Handles(nodes[a].type), to \in Handles(nodes[b].type) :
      /\ ValidConnection(nodes[a].id, from.id, nodes[b].id, to.id)
      /\ CanCommit
      /\ edges' = rfAddEdge(Connection(nodes[a].id, from, nodes[b].id, to),
                            edges)
      /\ history' = saveToHistory(history, historyIndex, nodes, edges)
      /\ historyIndex' = historyIndex + 1
      /\ Rendered(<<>>, edges' # edges, nodes, edges', heap, flowsheetId,
                  historyIndex')
      /\ UNCHANGED apiVars
      /\ UNCHANGED reloading
      /\ lastOp' = "onConnect"
      /\ track' = TrackCommit(nodes, edges', heap)
      /\ UNCHANGED <<nodes, heap, now, editorVars, flowsheetId, serverVars>>

\* Variant: only the node is removed, its edges stay.
removeNodeKeepEdges ==
  \E id \in NodeIds(nodes) :
    /\ nodes' = SelectSeq(nodes, LAMBDA n : n.id # id)
    /\ Rendered(<<>>, TRUE, nodes', edges, heap, flowsheetId, historyIndex)
    /\ UNCHANGED apiVars
    /\ UNCHANGED reloading
    /\ lastOp' = "removeNode"
    /\ track' = [phase |-> "removed", pre |-> Live,
                 post |-> [nodes |-> Resolve(nodes', heap), edges |-> edges],
                 truncated |-> FALSE]
    /\ UNCHANGED <<edges, heap, historyVars, now, editorVars, flowsheetId,
                   serverVars>>

\* Variant: the node is removed together with every edge of the graph.
removeNodeAllEdges ==
  \E id \in NodeIds(nodes) :
    /\ nodes' = SelectSeq(nodes, LAMBDA n : n.id # id)
    /\ edges' = <<>>
    /\ Rendered(<<>>, TRUE, nodes', edges', heap, flowsheetId, historyIndex)
    /\ UNCHANGED apiVars
    /\ UNCHANGED reloading
    /\ lastOp' = "removeNode"
    /\ track' = [phase |-> "removed", pre |-> Live,
                 post |-> [nodes |-> Resolve(nodes', heap), edges |-> edges'],
                 truncated |-> FALSE]
    /\ UNCHANGED <<heap, historyVars, now, editorVars, flowsheetId, serverVars>>

\* onNodesChange / onEdgesChange with the changes React Flow issues when the
\* selected node is deleted: the node and its connected edges are removed.
removeNode ==
  \E id \in NodeIds(nodes) :
    /\ nodes' = SelectSeq(nodes, LAMBDA n : n.id # id)
    /\ edges' = SelectSeq(edges, LAMBDA e : e.source # id /\ e.target # id)
    /\ Rendered(<<>>, TRUE, nodes', edges', heap, flowsheetId, historyIndex)
    /\ UNCHANGED apiVars
    /\ UNCHANGED reloading
    /\ lastOp' = "removeNode"
    /\ track' = [phase |-> "removed", pre |-> Live,
                 post |-> [nodes |-> Resolve(nodes', heap), edges |-> edges'],
                 truncated |-> FALSE]
    /\ UNCHANGED <<heap, historyVars, now, editorVars, flowsheetId, serverVars>>

\* onEdgesChange with the remove change of a selected edge.
removeEdge ==
  \E i \in 1..Len(edges) :
    /\ edges' = SelectSeq(edges, LAMBDA e : e.id # edges[i].id)
    /\ Rendered(<<>>, TRUE, nodes, edges', heap, flowsheetId, historyIndex)
    /\ UNCHANGED apiVars
    /\ UNCHANGED reloading
    /\ lastOp' = "removeEdge"
    /\ track' = NoTrack
    /\ UNCHANGED <<nodes, heap, historyVars, now, editorVars, flowsheetId, serverVars>>

\* Variant: a drag stores a snapshot.
moveNodeCommits ==
  \E id \in NodeIds(nodes), position \in DragPositions :
    /\ \E i \in 1..Len(nodes) : nodes[i].id = id /\ nodes[i].position # position
    /\ CanCommit
    /\ nodes' = [i \in 1..Len(nodes) |->
                   IF nodes[i].id = id
                   THEN [nodes[i] EXCEPT !.position = position]
                   ELSE nodes[i]]
    /\ history' = saveToHistory(history, historyIndex, nodes, edges)
    /\ historyIndex' = historyIndex + 1
    /\ Rendered(<<>>, TRUE, nodes', edges, heap, flowsheetId, historyIndex')
    /\ UNCHANGED apiVars
    /\ UNCHANGED reloading
    /\ lastOp' = "moveNode"
    /\ track' = NoTrack
    /\ UNCHANGED <<edges, heap, now, editorVars, flowsheetId, serverVars>>

\* onNodesChange with a position change (drag).
moveNode ==
  \E id \in NodeIds(nodes), position \in DragPositions :
    /\ \E i \in 1..Len(nodes) : nodes[i].id = id /\ nodes[i].position # position
    /\ nodes' = [i \in 1..Len(nodes) |->
                   IF nodes[i].id = id
                   THEN [nodes[i] EXCEPT !.position = position]
                   ELSE nodes[i]]
    /\ Rendered(<<>>, TRUE, nodes', edges, heap, flowsheetId, historyIndex)
    /\ UNCHANGED apiVars
    /\ UNCHANGED reloading
    /\ lastOp' = "moveNode"
    /\ track' = NoTrack
    /\ UNCHANGED <<edges, heap, historyVars, now, editorVars, flowsheetId, serverVars>>
\* Variant: undo at cursor 0 puts the first snapshot on the canvas.
undoAtZeroRestores ==
  /\ IF historyIndex > 0
     THEN LET previousState == history[historyIndex]
          IN /\ nodes' = previousState.nodes
             /\ edges' = previousState.edges
             /\ historyIndex' = historyIndex - 1
             /\ Rendered(<<>>, TRUE, nodes', edges', heap, flowsheetId,
                         historyIndex')
     ELSE IF historyIndex = 0
     THEN /\ nodes' = history[1].nodes
          /\ edges' = history[1].edges
          /\ Rendered(<<>>, TRUE, nodes', edges', heap, flowsheetId,
                      historyIndex)
          /\ UNCHANGED historyIndex
     ELSE UNCHANGED <<nodes, edges, historyIndex, addUnitEnv, pushVars>>
  /\ UNCHANGED apiVars
  /\ UNCHANGED reloading
  /\ lastOp' = IF historyIndex > 0 THEN "undo" ELSE "undo:no-op"
  /\ track' = IF track.phase = "committed"
              THEN [track EXCEPT !.phase = "undone"]
              ELSE NoTrack
  /\ UNCHANGED <<heap, history, now, editorVars, flowsheetId, serverVars>>

undo ==
  /\ IF historyIndex > 0
     THEN LET previousState == history[historyIndex]
          IN /\ nodes' = previousState.nodes
             /\ edges' = previousState.edges
             /\ historyIndex' = historyIndex - 1
             /\ Rendered(<<>>, TRUE, nodes', edges', heap, flowsheetId,
                         historyIndex')
     ELSE UNCHANGED <<nodes, edges, historyIndex, addUnitEnv, pushVars>>
  /\ UNCHANGED apiVars
  /\ UNCHANGED reloading
  /\ lastOp' = IF historyIndex > 0 THEN "undo" ELSE "undo:no-op"
  /\ track' = IF track.phase = "committed"
              THEN [track EXCEPT !.phase = "undone"]
              ELSE NoTrack
  /\ UNCHANGED <<heap, history, now, editorVars, flowsheetId, serverVars>>

redo ==
  /\ IF historyIndex < Len(history) - 1
     THEN LET nextState == history[historyIndex + 2]
          IN /\ nodes' = nextState.nodes
             /\ edges' = nextState.edges
             /\ historyIndex' = historyIndex + 1
             /\ Rendered(<<>>, TRUE, nodes', edges', heap, flowsheetId,
                         historyIndex')
     ELSE UNCHANGED <<nodes, edges, historyIndex, addUnitEnv, pushVars>>
  /\ UNCHANGED apiVars
  /\ UNCHANGED reloading
  /\ lastOp' = IF historyIndex < Len(history) - 1 THEN "redo" ELSE "redo:no-op"
  /\ track' = IF track.phase = "undone"
              THEN [track EXCEPT !.phase = "redone"]
              ELSE NoTrack
  /\ UNCHANGED <<heap, history, now, editorVars, flowsheetId, serverVars>>

\* ------------------------------------------------------------- selection
\* The node object React Flow hands to onNodeClick: its own copy of the node,
\* sharing the node's data object.
NodeObject(id) ==
  LET n == LastWithId(nodes, id) IN <<[id |-> n.id, data |-> n.data]>>

\* PropertiesPanel useEffect(..., [selectedNode]).
OpenBuffer(sel, hp) ==
  IF sel # Null
  THEN /\ parameters' = hp[sel[1].data].parameters
       /\ name' = hp[sel[1].data].name
       /\ hasChanges' = FALSE
  ELSE /\ parameters' = NoParams
       /\ name' = <<>>
       /\ hasChanges' = FALSE

\* onNodeClick -> handleNodeSelect(node).  Clicking the node that is selected
\* hands over either the very same object (no state change, no effect) or a
\* copy React Flow has rebuilt since.
\* Variant: the dirty buffer is written to the node it belongs to before the
\* selection moves on.
onNodeClickAutoSave ==
  \E id \in NodeIds(nodes) :
    /\ selectedNode' = NodeObject(id)
    /\ heap' = IF selectedNode # Null /\ hasChanges
               THEN [heap EXCEPT ![selectedNode[1].data] =
                       [@ EXCEPT !.parameters = parameters, !.name = name]]
               ELSE heap
    /\ OpenBuffer(selectedNode', heap')
    /\ UNCHANGED apiVars
    /\ UNCHANGED reloading
    /\ lastOp' = "onNodeClick"
    /\ track' = TrackBuffer("discarded")
    /\ UNCHANGED <<nodes, edges, historyVars, addUnitEnv, now, flowsheetId,
                   netVars>>

onNodeClick ==
  \E id \in NodeIds(nodes), rebuilt \in BOOLEAN :
    /\ rebuilt \/ selectedNode = NodeObject(id)
    /\ IF rebuilt
       THEN /\ selectedNode' = NodeObject(id)
            /\ OpenBuffer(selectedNode', heap)
       ELSE UNCHANGED editorVars
    /\ UNCHANGED apiVars
    /\ UNCHANGED reloading
    /\ lastOp' = "onNodeClick"
    /\ track' = IF rebuilt THEN TrackBuffer("discarded") ELSE NoTrack
    /\ UNCHANGED <<canvasVars, now, flowsheetId, netVars>>

\* onPaneClick -> handleNodeSelect(null).
onPaneClick ==
  /\ selectedNode' = Null
  /\ IF selectedNode # Null
     THEN OpenBuffer(Null, heap)
     ELSE UNCHANGED bufferVars
  /\ UNCHANGED apiVars
  /\ UNCHANGED reloading
  /\ lastOp' = "onPaneClick"
  /\ track' = TrackBuffer("discarded")
  /\ UNCHANGED <<canvasVars, now, flowsheetId, netVars>>

\* ---------------------------------------------------------------- editor
ParamKeys == {"stages"}
ParamValues == {0, 5}
TypedNames == {<<"R-101", 0>>}

\* The inputs the panel offers: the distillation column's fixed inputs, one
\* input per key of the buffer, and "Add Parameter" (a new key, value 0).
CanEdit(key, value) ==
  /\ selectedNode # Null
  /\ \/ heap[selectedNode[1].data].unitType = "DistillationColumn"
     \/ key \in DOMAIN parameters
     \/ value = 0 /\ key \notin DOMAIN parameters

\* Variant: the edit is written into the object the buffer was read from.
handleParameterChangeInPlace ==
  \E key \in ParamKeys, value \in ParamValues :
    /\ CanEdit(key, value)
    /\ parameters' = [k \in DOMAIN parameters \cup {key} |->
                        IF k = key THEN value ELSE parameters[k]]
    /\ heap' = [heap EXCEPT ![selectedNode[1].data].parameters = parameters']
    /\ hasChanges' = TRUE
    /\ UNCHANGED apiVars
    /\ UNCHANGED reloading
    /\ lastOp' = "handleParameterChange"
    /\ track' = NoTrack
    /\ UNCHANGED <<nodes, edges, historyVars, addUnitEnv, now, selectedNode,
                   name, flowsheetId, netVars>>

handleParameterChange ==
  \E key \in ParamKeys, value \in ParamValues :
    /\ CanEdit(key, value)
    /\ parameters' = [k \in DOMAIN parameters \cup {key} |->
                        IF k = key THEN value ELSE parameters[k]]
    /\ hasChanges' = TRUE
    /\ UNCHANGED apiVars
    /\ UNCHANGED reloading
    /\ lastOp' = "handleParameterChange"
    /\ track' = NoTrack
    /\ UNCHANGED <<canvasVars, now, selectedNode, name, flowsheetId, netVars>>

\* Variant: a name typed is written onto the selected node at once.
handleNameChangeWritesNode ==
  \E newName \in TypedNames :
    /\ selectedNode # Null
    /\ name' = newName
    /\ heap' = [heap EXCEPT ![selectedNode[1].data].name = newName]
    /\ hasChanges' = TRUE
    /\ UNCHANGED apiVars
    /\ UNCHANGED reloading
    /\ lastOp' = "handleNameChange"
    /\ track' = NoTrack
    /\ UNCHANGED <<nodes, edges, historyVars, addUnitEnv, now, selectedNode,
                   parameters, flowsheetId, netVars>>

handleNameChange ==
  \E newName \in TypedNames :
    /\ selectedNode # Null
    /\ name' = newName
    /\ hasChanges' = TRUE
    /\ UNCHANGED apiVars
    /\ UNCHANGED reloading
    /\ lastOp' = "handleNameChange"
    /\ track' = NoTrack
    /\ UNCHANGED <<canvasVars, now, selectedNode, parameters, flowsheetId,
                   netVars>>

\* saveChanges: the buffer is assigned onto selectedNode.data in place.
saveChanges ==
  /\ selectedNode # Null /\ hasChanges
  /\ heap' = [heap EXCEPT ![selectedNode[1].data] =
                [@ EXCEPT !.parameters = parameters, !.name = name]]
  /\ hasChanges' = FALSE
  /\ UNCHANGED apiVars
  /\ UNCHANGED reloading
  /\ lastOp' = "saveChanges"
  /\ track' = NoTrack
  /\ UNCHANGED <<nodes, edges, historyVars, addUnitEnv, now, selectedNode,
                 parameters, name, flowsheetId, netVars>>

resetChanges ==
  /\ selectedNode # Null /\ hasChanges
  /\ OpenBuffer(selectedNode, heap)
  /\ UNCHANGED apiVars
  /\ UNCHANGED reloading
  /\ lastOp' = "resetChanges"
  /\ track' = TrackBuffer("reset")
  /\ UNCHANGED <<canvasVars, now, selectedNode, flowsheetId, netVars>>

\* --------------------------------------------------------------- backend
RemoveAt(s, i) == SubSeq(s, 1, i - 1) \o SubSeq(s, i + 1, Len(s))

FlowsheetIdOf(k) == <<"fs", k>>

\* createNewFlowsheet: POST /flowsheet.
createNewFlowsheet ==
  /\ flowsheetId = Null
  /\ posts + Len(backend) < MaxFlowsheets
  /\ posts' = posts + 1
  /\ UNCHANGED apiVars
  /\ UNCHANGED reloading
  /\ lastOp' = "createNewFlowsheet"
  /\ track' = NoTrack
  /\ UNCHANGED <<canvasVars, now, editorVars, flowsheetId, gets, backend,
                 pushVars, panelVars>>

\* The POST succeeds: onFlowsheetIdChange(response.flowsheet_id); the render
\* that follows runs the load effect and, updateFlowsheetInBackend being a
\* new function, the push effect.
createFlowsheetResolved ==
  /\ posts > 0
  /\ posts' = posts - 1
  /\ backend' = Append(backend, [units |-> <<>>, connections |-> <<>>])
  /\ flowsheetId' = FlowsheetIdOf(Len(backend'))
  /\ gets' = Append(gets, flowsheetId')
  /\ Rendered(<<>>, TRUE, nodes, edges, heap, flowsheetId', historyIndex)
  /\ UNCHANGED apiVars
  /\ UNCHANGED reloading
  /\ lastOp' = "createFlowsheetResolved"
  /\ track' = NoTrack
  /\ UNCHANGED <<nodes, edges, heap, historyVars, now, editorVars, panelVars>>

createFlowsheetRejected ==
  /\ posts > 0
  /\ posts' = posts - 1
  /\ UNCHANGED apiVars
  /\ UNCHANGED reloading
  /\ lastOp' = "createFlowsheetRejected"
  /\ track' = NoTrack
  /\ UNCHANGED <<canvasVars, now, editorVars, flowsheetId, gets, backend,
                 pushVars, panelVars>>

\* loadFlowsheet after GET /flowsheet/{id} answered: the units and connections
\* become the node and edge arrays, every node with a new data object.
flowNodes(units, base) ==
  [i \in 1..Len(units) |->
     [id |-> units[i].id, type |-> "unit", position |-> units[i].position,
      data |-> base + i]]

flowData(units) ==
  [i \in 1..Len(units) |->
     [unitType |-> units[i].type, name |-> units[i].name,
      parameters |-> units[i].parameters]]

\* Variant: the edges of a pull run from to_unit to from_unit.
flowEdgesReversed(connections) ==
  [i \in 1..Len(connections) |->
     [id |-> connections[i].id,
      source |-> connections[i].to_unit, sourceHandle |-> NoHandle,
      target |-> connections[i].from_unit, targetHandle |-> NoHandle,
      type |-> "default"]]

flowEdges(connections) ==
  [i \in 1..Len(connections) |->
     [id |-> connections[i].id,
      source |-> connections[i].from_unit, sourceHandle |-> NoHandle,
      target |-> connections[i].to_unit, targetHandle |-> NoHandle,
      type |-> "default"]]

loadFlowsheetResolved ==
  \E i \in 1..Len(gets) :
    LET flowsheet == backend[gets[i][2]]
    IN /\ Len(heap) + Len(flowsheet.units) <= MaxObjs
       /\ gets' = RemoveAt(gets, i)
       /\ heap' = heap \o flowData(flowsheet.units)
       /\ nodes' = flowNodes(flowsheet.units, Len(heap))
       /\ edges' = flowEdges(flowsheet.connections)
       /\ Rendered(<<>>, TRUE, nodes', edges', heap', flowsheetId, historyIndex)
       /\ UNCHANGED apiVars
       /\ UNCHANGED reloading
       /\ lastOp' = "loadFlowsheetResolved"
       /\ track' = NoTrack
       /\ UNCHANGED <<historyVars, now, editorVars, flowsheetId, posts, backend,
                      panelVars>>

loadFlowsheetRejected ==
  \E i \in 1..Len(gets) :
    /\ gets' = RemoveAt(gets, i)
    /\ UNCHANGED apiVars
    /\ UNCHANGED reloading
    /\ lastOp' = "loadFlowsheetRejected"
    /\ track' = NoTrack
    /\ UNCHANGED <<canvasVars, now, editorVars, flowsheetId, posts, backend,
                   pushVars, panelVars>>

\* PUT /flowsheet/{id}: the supplied units and connections replace the stored
\* ones.  Requests in flight are answered in any order.
updateFlowsheetResolved ==
  \E i \in 1..Len(puts) :
    /\ backend' = [backend EXCEPT ![puts[i].id[2]] =
                     [units |-> puts[i].units,
                      connections |-> puts[i].connections]]
    /\ puts' = RemoveAt(puts, i)
    /\ UNCHANGED apiVars
    /\ UNCHANGED reloading
    /\ lastOp' = "updateFlowsheetResolved"
    /\ track' = NoTrack
    /\ UNCHANGED <<canvasVars, now, editorVars, flowsheetId, posts, gets,
                   lastPush, panelVars>>

\* Variant: a failed push puts the canvas back to the last snapshot.
updateFlowsheetRejectedRollsBack ==
  \E i \in 1..Len(puts) :
    /\ puts' = RemoveAt(puts, i)
    /\ IF historyIndex >= 0
       THEN /\ nodes' = history[historyIndex + 1].nodes
            /\ edges' = history[historyIndex + 1].edges
       ELSE UNCHANGED <<nodes, edges>>
    /\ UNCHANGED apiVars
    /\ UNCHANGED reloading
    /\ lastOp' = "updateFlowsheetRejected"
    /\ track' = NoTrack
    /\ UNCHANGED <<heap, history, historyIndex, addUnitEnv, now, editorVars,
                   flowsheetId, posts, gets, backend, lastPush, panelVars>>

\* updateFlowsheetInBackend after its await: the PUT rejected; the catch logs.
updateFlowsheetRejected ==
  \E i \in 1..Len(puts) :
    /\ puts' = RemoveAt(puts, i)
    /\ UNCHANGED apiVars
    /\ UNCHANGED reloading
    /\ lastOp' = "updateFlowsheetRejected"
    /\ track' = NoTrack
    /\ UNCHANGED <<canvasVars, now, editorVars, flowsheetId, posts, gets,
                   backend, lastPush, panelVars>>

\* ------------------------------------------------------------ simulation
Completed == <<[simulation_id |-> "sim", status |-> "completed",
                error |-> "", units |-> "results", streams |-> "results"]>>

\* Variant: the catch hands over a failure without a message.
FailedNoMessage(message) ==
  <<[simulation_id |-> "error", status |-> "failed",
     error |-> "", units |-> "{}", streams |-> "{}"]>>

\* What runSimulation's catch hands to onSimulationComplete.
Failed(message) == <<[simulation_id |-> "error", status |-> "failed",
                      error |-> message, units |-> "{}", streams |-> "{}"]>>

ErrorMessages == {"Network error - please check your connection", "HTTP 500"}

\* What the simulate endpoint can answer with status 200: a completed run, or
\* a run it reports as failed, with or without a message and with or without
\* numbers; runSimulation hands the body on as it is.
SimulationBodies ==
  {Completed[1],
   [simulation_id |-> "sim", status |-> "failed",
    error |-> "Simulation did not converge", units |-> "{}", streams |-> "{}"],
   [simulation_id |-> "sim", status |-> "failed",
    error |-> "", units |-> "results", streams |-> "results"]}

\* What ResultsPanel shows: the loader while a run is in progress, the
\* placeholder without a result, for a failed result the error text alone,
\* otherwise the tabs with the numbers.
ResultsPanel(results, simulating) ==
  IF simulating
  THEN [view |-> "loading", error |-> "", units |-> "{}", streams |-> "{}"]
  ELSE IF results = Null
  THEN [view |-> "empty", error |-> "", units |-> "{}", streams |-> "{}"]
  ELSE IF results[1].status = "failed"
  THEN [view |-> "failed",
        error |-> IF results[1].error # "" THEN results[1].error
                  ELSE "Unknown error occurred",
        units |-> "{}", streams |-> "{}"]
  ELSE [view |-> "results", error |-> "", units |-> results[1].units,
        streams |-> results[1].streams]

\* Variant: the guard does not look at isSimulating.
runSimulationUnguarded ==
  /\ runs < MaxRuns
  /\ IF flowsheetId = Null
     THEN UNCHANGED simVars
     ELSE /\ isSimulating' = TRUE
          /\ simulationResults' = Null
          /\ sims' = Append(sims, flowsheetId)
          /\ runs' = runs + 1
  /\ UNCHANGED apiVars
  /\ UNCHANGED reloading
  /\ lastOp' = IF flowsheetId = Null THEN "runSimulation:NoFlowsheet"
               ELSE IF isSimulating THEN "runSimulation:AlreadyRunning"
               ELSE "runSimulation:started"
  /\ track' = NoTrack
  /\ UNCHANGED <<canvasVars, now, editorVars, flowsheetId, posts, gets,
                 backend, pushVars, chatVars>>

\* Variant: the guard does not look at flowsheetId.
runSimulationAnyFlowsheet ==
  /\ runs < MaxRuns
  /\ IF isSimulating
     THEN UNCHANGED simVars
     ELSE /\ isSimulating' = TRUE
          /\ simulationResults' = Null
          /\ sims' = Append(sims, flowsheetId)
          /\ runs' = runs + 1
  /\ UNCHANGED apiVars
  /\ UNCHANGED reloading
  /\ lastOp' = IF flowsheetId = Null THEN "runSimulation:NoFlowsheet"
               ELSE IF isSimulating THEN "runSimulation:AlreadyRunning"
               ELSE "runSimulation:started"
  /\ track' = NoTrack
  /\ UNCHANGED <<canvasVars, now, editorVars, flowsheetId, posts, gets,
                 backend, pushVars, chatVars>>

\* Variant: onSimulationStart leaves the previous result in place.
runSimulationKeepsResult ==
  /\ runs < MaxRuns
  /\ IF flowsheetId = Null \/ isSimulating
     THEN UNCHANGED simVars
     ELSE /\ isSimulating' = TRUE
          /\ simulationResults' = simulationResults
          /\ sims' = Append(sims, flowsheetId)
          /\ runs' = runs + 1
  /\ UNCHANGED apiVars
  /\ UNCHANGED reloading
  /\ lastOp' = IF flowsheetId = Null THEN "runSimulation:NoFlowsheet"
               ELSE IF isSimulating THEN "runSimulation:AlreadyRunning"
               ELSE "runSimulation:started"
  /\ track' = NoTrack
  /\ UNCHANGED <<canvasVars, now, editorVars, flowsheetId, posts, gets,
                 backend, pushVars, chatVars>>

\* runSimulation up to its await.
runSimulation ==
  /\ runs < MaxRuns
  /\ IF flowsheetId = Null \/ isSimulating
     THEN UNCHANGED simVars
     ELSE /\ isSimulating' = TRUE
          /\ simulationResults' = Null
          /\ sims' = Append(sims, flowsheetId)
          /\ runs' = runs + 1
  /\ UNCHANGED apiVars
  /\ UNCHANGED reloading
  /\ lastOp' = IF flowsheetId = Null THEN "runSimulation:NoFlowsheet"
               ELSE IF isSimulating THEN "runSimulation:AlreadyRunning"
               ELSE "runSimulation:started"
  /\ track' = NoTrack
  /\ UNCHANGED <<canvasVars, now, editorVars, flowsheetId, posts, gets,
                 backend, pushVars, chatVars>>

\* Variant: the success path hands over the result but leaves isSimulating
\* set.
runSimulationResolvedStillRunning ==
  /\ \E i \in 1..Len(sims) : sims' = RemoveAt(sims, i)
  /\ \E body \in SimulationBodies : simulationResults' = <<body>>
  /\ UNCHANGED apiVars
  /\ UNCHANGED reloading
  /\ lastOp' = "runSimulationResolved"
  /\ track' = NoTrack
  /\ UNCHANGED <<canvasVars, now, editorVars, flowsheetId, posts, gets,
                 backend, pushVars, chatVars, isSimulating, runs>>

\* runSimulation after its await: the request resolved.
runSimulationResolved ==
  /\ \E i \in 1..Len(sims) : sims' = RemoveAt(sims, i)
  /\ \E body \in SimulationBodies : simulationResults' = <<body>>
  /\ isSimulating' = FALSE
  /\ runs' = runs
  /\ UNCHANGED apiVars
  /\ UNCHANGED reloading
  /\ lastOp' = "runSimulationResolved"
  /\ track' = NoTrack
  /\ UNCHANGED <<canvasVars, now, editorVars, flowsheetId, posts, gets,
                 backend, pushVars, chatVars>>

\* Variant: the catch branch shows the failure but leaves isSimulating set.
runSimulationRejectedStillRunning ==
  \E message \in ErrorMessages :
    /\ \E i \in 1..Len(sims) : sims' = RemoveAt(sims, i)
    /\ simulationResults' = Failed(message)
    /\ UNCHANGED apiVars
    /\ UNCHANGED reloading
    /\ lastOp' = "runSimulationRejected"
    /\ track' = NoTrack
    /\ UNCHANGED <<canvasVars, now, editorVars, flowsheetId, posts, gets,
                   backend, pushVars, chatVars, isSimulating, runs>>

\* Variant: the catch sends the request once more instead of giving up.
runSimulationRejectedRetries ==
  \E message \in ErrorMessages :
    /\ \E i \in 1..Len(sims) :
         sims' = Append(RemoveAt(sims, i), flowsheetId)
    /\ UNCHANGED apiVars
    /\ UNCHANGED reloading
    /\ lastOp' = "runSimulationRejected"
    /\ track' = NoTrack
    /\ UNCHANGED <<canvasVars, now, editorVars, flowsheetId, posts, gets,
                   backend, pushVars, chatVars, isSimulating,
                   simulationResults, runs>>

\* runSimulation after its await: the request rejected.
runSimulationRejected ==
  \E message \in ErrorMessages :
    /\ \E i \in 1..Len(sims) : sims' = RemoveAt(sims, i)
    /\ simulationResults' = Failed(message)
    /\ isSimulating' = FALSE
    /\ runs' = runs
    /\ UNCHANGED apiVars
    /\ UNCHANGED reloading
    /\ lastOp' = "runSimulationRejected"
    /\ track' = NoTrack
    /\ UNCHANGED <<canvasVars, now, editorVars, flowsheetId, posts, gets,
                   backend, pushVars, chatVars>>

\* ------------------------------------------------------------------ chat
MaxMessageLength == 5000

ChatInputs == {"", "  ", "hi", "long"}

trim(text) == IF text = "  " THEN "" ELSE text

length(text) ==
  CASE text = "" -> 0
    [] text = "  " -> 2
    [] text = "hi" -> 2
    [] text = "long" -> MaxMessageLength + 1

UserMessages(msgs) == {i \in 1..Len(msgs) : msgs[i].type = "user"}

\* The text box's onChange.
setInput ==
  \E text \in ChatInputs :
    /\ text # input
    /\ input' = text
    /\ UNCHANGED apiVars
    /\ UNCHANGED reloading
    /\ lastOp' = "setInput"
    /\ track' = NoTrack
    /\ UNCHANGED <<canvasVars, now, editorVars, flowsheetId, posts, gets,
                   backend, pushVars, simVars, messages, isLoading, chats>>
\* Variant: the length of the message is not looked at.
sendMessageNoLengthCheck ==
  LET trimmedInput == trim(input)
  IN /\ IF trimmedInput = "" \/ isLoading
        THEN UNCHANGED chatVars
        ELSE /\ Cardinality(UserMessages(messages)) < MaxChats
             /\ messages' = Append(messages, [type |-> "user",
                                              content |-> trimmedInput])
             /\ input' = ""
             /\ isLoading' = TRUE
             /\ chats' = Append(chats, [message |-> trimmedInput,
                                        flowsheetId |-> flowsheetId])
     /\ UNCHANGED apiVars
     /\ UNCHANGED reloading
     /\ lastOp' = "sendMessage"
     /\ track' = NoTrack
     /\ UNCHANGED <<canvasVars, now, editorVars, flowsheetId, posts, gets,
                    backend, pushVars, simVars>>
\* Variant: the guard does not look at isLoading.
sendMessageWhileLoading ==
  LET trimmedInput == trim(input)
  IN /\ IF trimmedInput = ""
           \/ length(trimmedInput) > MaxMessageLength
        THEN UNCHANGED chatVars
        ELSE /\ Cardinality(UserMessages(messages)) <= MaxChats
             /\ messages' = Append(messages, [type |-> "user",
                                              content |-> trimmedInput])
             /\ input' = ""
             /\ isLoading' = TRUE
             /\ chats' = Append(chats, [message |-> trimmedInput,
                                        flowsheetId |-> flowsheetId])
     /\ UNCHANGED apiVars
     /\ UNCHANGED reloading
     /\ lastOp' = "sendMessage"
     /\ track' = NoTrack
     /\ UNCHANGED <<canvasVars, now, editorVars, flowsheetId, posts, gets,
                    backend, pushVars, simVars>>

\* sendMessage up to its await.
sendMessage ==
  LET trimmedInput == trim(input)
  IN /\ IF trimmedInput = "" \/ isLoading
           \/ length(trimmedInput) > MaxMessageLength
        THEN UNCHANGED chatVars
        ELSE /\ Cardinality(UserMessages(messages)) < MaxChats
             /\ messages' = Append(messages, [type |-> "user",
                                              content |-> trimmedInput])
             /\ input' = ""
             /\ isLoading' = TRUE
             /\ chats' = Append(chats, [message |-> trimmedInput,
                                        flowsheetId |-> flowsheetId])
     /\ UNCHANGED apiVars
     /\ UNCHANGED reloading
     /\ lastOp' = "sendMessage"
     /\ track' = NoTrack
     /\ UNCHANGED <<canvasVars, now, editorVars, flowsheetId, posts, gets,
                    backend, pushVars, simVars>>

\* What POST /llm/chat may answer.
LLMResponses ==
  {[action |-> a, message |-> "reply", flowsheet_update |-> u] :
     a \in {"update_flowsheet", "chat"}, u \in BOOLEAN}

\* window.location.reload(): the page starts over; what was persisted stays,
\* and so do the PUT requests already sent.
Reload ==
  /\ nodes' = <<>>
  /\ edges' = <<>>
  /\ heap' = <<>>
  /\ history' = <<>>
  /\ historyIndex' = -1
  /\ addUnitEnv' = [len |-> 0, flowsheetId |-> Null, historyIndex |-> -1,
                    nodes |-> <<>>, edges |-> <<>>]
  /\ selectedNode' = Null
  /\ flowsheetId' = Null
  /\ parameters' = NoParams
  /\ name' = <<>>
  /\ hasChanges' = FALSE
  /\ posts' = 0
  /\ gets' = <<>>
  /\ lastPush' = Null
  /\ isSimulating' = FALSE
  /\ simulationResults' = Null
  /\ sims' = <<>>
  /\ runs' = 0
  /\ messages' = <<Greeting>>
  /\ input' = ""
  /\ isLoading' = FALSE
  /\ chats' = <<>>
  /\ UNCHANGED <<now, puts, backend>>

\* sendMessage after its await: the request resolved.  The reply is appended
\* and isLoading cleared in every case; for a reply that updates the bound
\* flowsheet window.location.reload() is called in between, which lets the
\* handler finish and then replaces the page.
sendMessageResolved ==
  \E i \in 1..Len(chats), response \in LLMResponses :
    /\ messages' = Append(messages, [type |-> "assistant",
                                     content |-> response.message])
    /\ isLoading' = FALSE
    /\ chats' = RemoveAt(chats, i)
    /\ reloading' = (\/ reloading
                     \/ /\ response.action = "update_flowsheet"
                        /\ response.flowsheet_update
                        /\ chats[i].flowsheetId # Null)
    /\ UNCHANGED apiVars
    /\ lastOp' = IF response.action = "update_flowsheet"
                    /\ response.flowsheet_update
                 THEN "sendMessageResolved:update"
                 ELSE "sendMessageResolved"
    /\ track' = NoTrack
    /\ UNCHANGED <<canvasVars, now, editorVars, flowsheetId, posts, gets,
                   backend, pushVars, simVars, input>>

\* The reload takes effect: the page that called it is gone.
reload ==
  /\ reloading
  /\ Reload
  /\ reloading' = FALSE
  /\ UNCHANGED apiVars
  /\ lastOp' = "reload"
  /\ track' = NoTrack

ChatErrors == {"Network error", "validation failed", "HTTP 500"}

\* The catch branch's choice of text (error.message.includes(...)).
errorContent(message) ==
  CASE message = "Network error" -> "Unable to connect to the server"
    [] message = "validation failed" -> "There was a validation error"
    [] OTHER -> "I apologize, but I encountered an error"

\* Variant: the catch only logs: no reply is appended.
sendMessageRejectedSilent ==
  \E i \in 1..Len(chats), message \in ChatErrors :
    /\ isLoading' = FALSE
    /\ chats' = RemoveAt(chats, i)
    /\ UNCHANGED apiVars
    /\ UNCHANGED reloading
    /\ lastOp' = "sendMessageRejected"
    /\ track' = NoTrack
    /\ UNCHANGED <<canvasVars, now, editorVars, flowsheetId, posts, gets,
                   backend, pushVars, simVars, input, messages>>

\* sendMessage after its await: the request rejected.
sendMessageRejected ==
  \E i \in 1..Len(chats), message \in ChatErrors :
    /\ messages' = Append(messages, [type |-> "assistant",
                                     content |-> errorContent(message)])
    /\ isLoading' = FALSE
    /\ chats' = RemoveAt(chats, i)
    /\ UNCHANGED apiVars
    /\ UNCHANGED reloading
    /\ lastOp' = "sendMessageRejected"
    /\ track' = NoTrack
    /\ UNCHANGED <<canvasVars, now, editorVars, flowsheetId, posts, gets,
                   backend, pushVars, simVars, input>>

\* ---------------------------------------------------------- specifications
\* The canvas alone: graph edits and the undo/redo history.
Next ==
  \/ Tick
  \/ addUnit
  \/ onConnect
  \/ removeNode
  \/ removeEdge
  \/ moveNode
  \/ undo
  \/ redo

Spec == Init /\ [][Next]_vars

\* The properties panel over a graph built by addUnit and undone by undo.
NextEditor ==
  \/ addUnit
  \/ undo
  \/ onNodeClick
  \/ onPaneClick
  \/ handleParameterChange
  \/ handleNameChange
  \/ saveChanges
  \/ resetChanges

SpecEditor == Init /\ [][NextEditor]_vars

\* Synchronisation with the backend.
NextSync ==
  \/ createNewFlowsheet
  \/ createFlowsheetResolved
  \/ createFlowsheetRejected
  \/ loadFlowsheetResolved
  \/ loadFlowsheetRejected
  \/ updateFlowsheetResolved
  \/ updateFlowsheetRejected
  \/ addUnit
  \/ removeNode
  \/ undo

SpecSync == Init /\ [][NextSync]_vars

\* The toolbar's simulation run over a bound flowsheet.
NextSim ==
  \/ createNewFlowsheet
  \/ createFlowsheetResolved
  \/ loadFlowsheetResolved
  \/ updateFlowsheetResolved
  \/ addUnit
  \/ runSimulation
  \/ runSimulationResolved
  \/ runSimulationRejected

SpecSim == Init /\ [][NextSim]_vars

\* The chat panel beside a canvas with a graph, a history and a selection.
NextChat ==
  \/ createNewFlowsheet
  \/ createFlowsheetResolved
  \/ loadFlowsheetResolved
  \/ updateFlowsheetResolved
  \/ addUnit
  \/ onNodeClick
  \/ setInput
  \/ sendMessage
  \/ sendMessageResolved
  \/ sendMessageRejected
  \/ reload

SpecChat == Init /\ [][NextChat]_vars

\* The graph and its history without drags: moving a node changes positions
\* only.
NextGraph ==
  \/ Tick
  \/ addUnit
  \/ onConnect
  \/ removeNode
  \/ removeEdge
  \/ undo
  \/ redo

SpecGraph == Init /\ [][NextGraph]_vars

\* The edit buffer over a graph that only grows: selection, typing, save and
\* reset.
NextBuffer ==
  \/ addUnit
  \/ onNodeClick
  \/ onPaneClick
  \/ handleParameterChange
  \/ handleNameChange
  \/ saveChanges
  \/ resetChanges

SpecBuffer == Init /\ [][NextBuffer]_vars

\* The run button: a flowsheet is created, units are added, and runs are
\* triggered, answered and rejected.
NextRun ==
  \/ createNewFlowsheet
  \/ createFlowsheetResolved
  \/ addUnit
  \/ runSimulation
  \/ runSimulationResolved
  \/ runSimulationRejected

SpecRun == Init /\ [][NextRun]_vars

\* Pushes and pulls of a canvas that only grows.
NextPush ==
  \/ createNewFlowsheet
  \/ createFlowsheetResolved
  \/ loadFlowsheetResolved
  \/ loadFlowsheetRejected
  \/ updateFlowsheetResolved
  \/ updateFlowsheetRejected
  \/ addUnit

SpecPush == Init /\ [][NextPush]_vars

\* The history under commits of which two may share a batch.
NextBatch ==
  \/ Tick
  \/ addUnit
  \/ addUnitBatched
  \/ onConnect
  \/ undo
  \/ redo

SpecBatch == Init /\ [][NextBatch]_vars

\* Units are added and dragged about, and edits are undone.
NextDrag ==
  \/ Tick
  \/ addUnit
  \/ moveNode
  \/ undo

SpecDrag == Init /\ [][NextDrag]_vars

\* The chat panel alone, with and without a bound flowsheet.
NextTalk ==
  \/ createNewFlowsheet
  \/ createFlowsheetResolved
  \/ setInput
  \/ sendMessage
  \/ sendMessageResolved
  \/ sendMessageRejected
  \/ reload

SpecTalk == Init /\ [][NextTalk]_vars

\* Units are added, wired and dragged about.
NextWire ==
  \/ addUnit
  \/ onConnect
  \/ moveNode

SpecWire == Init /\ [][NextWire]_vars

\* ------------------------------------------------------------ properties
CanRedo == historyIndex < Len(history) - 1

\* C1: undo() right after a commit restores the graph that was live before
\* the commit, and redo() right after that undo restores the graph that was
\* live after the commit.
C1_UndoRedoRestoreCommit ==
  /\ track.phase = "undone" => Live = track.pre
  /\ track.phase = "redone" => Live = track.post

\* C2: no edge of the live graph has a source or a target that is not the id
\* of a live node, and the ports the edge is persisted with are ports its
\* units declare.
C2_NoDanglingEdge ==
  LET units == Units(nodes, heap)
      connections == Connections(edges)
  IN \A c \in 1..Len(connections) :
       /\ \E u \in 1..Len(units) :
            /\ units[u].id = connections[c].from_unit
            /\ \E p \in 1..Len(units[u].outlet_ports) :
                 units[u].outlet_ports[p] = connections[c].from_port
       /\ \E u \in 1..Len(units) :
            /\ units[u].id = connections[c].to_unit
            /\ \E p \in 1..Len(units[u].inlet_ports) :
                 units[u].inlet_ports[p] = connections[c].to_port

\* A node was removed together with an edge that was attached to it.
C2_Witness ==
  /\ track.phase = "removed"
  /\ Len(track.pre.edges) > Len(edges)
  /\ Len(nodes) > 0

\* C3: a commit cuts the history after the cursor before it appends, so that
\* right after it the cursor is at the last snapshot, nothing can be redone,
\* and a redo() that follows changes neither the graph nor the cursor.
C3_CommitDiscardsRedoable ==
  [][/\ (lastOp' \in {"addUnit", "onConnect"} /\ (addUnit \/ onConnect))
        => /\ Len(history') = historyIndex + 2
           /\ SubSeq(history', 1, historyIndex + 1)
                = SubSeq(history, 1, historyIndex + 1)
           /\ historyIndex' = Len(history') - 1
           /\ ~CanRedo'
     /\ (track.phase = "committed" /\ lastOp' \in {"redo", "redo:no-op"}
           /\ redo)
        => /\ lastOp' = "redo:no-op"
           /\ UNCHANGED <<nodes, edges, historyIndex>>]_vars

\* A commit made after an undo, with snapshots beyond the cursor to discard.
C3_Witness ==
  /\ track.phase = "committed"
  /\ track.truncated
  /\ historyIndex = Len(history) - 1

\* C4: at most one PUT request is in flight for a flowsheet id at any time.
C4_PushesSerialized ==
  \A i \in 1..Len(puts), j \in 1..Len(puts) :
    puts[i].id = puts[j].id => i = j

\* The request a push of the live graph would carry.
LivePush == updateFlowsheetInBackend(flowsheetId, nodes, edges, heap)

\* C5: once a local edit of the graph of a bound flowsheet has been handled,
\* the push issued last carries the graph as it is now (also when the edit
\* left the graph empty).
C5_LastStatePushed ==
  (flowsheetId # Null /\ lastOp \in {"addUnit", "removeNode", "undo"})
    => lastPush = LivePush

\* C6: an assistant reply that carries a flowsheet update for the bound
\* flowsheet leaves the flowsheet id, the selection, the nodes and the
\* snapshots up to the cursor as they were, appends one snapshot for the
\* change, and does not send the page into a reload.
C6_AssistantUpdateKeepsState ==
  [][(sendMessageResolved /\ lastOp' = "sendMessageResolved:update"
        /\ flowsheetId # Null)
       => /\ flowsheetId' = flowsheetId
          /\ selectedNode' = selectedNode
          /\ SubSeq(history', 1, historyIndex + 1)
               = SubSeq(history, 1, historyIndex + 1)
          /\ Len(history') = historyIndex + 2
          /\ historyIndex' = historyIndex + 1
          /\ \A i \in 1..Len(nodes) : nodes[i].id \in NodeIds(nodes')
          /\ ~reloading']_vars

\* C7: a trigger while the simulate request of an earlier trigger is in
\* flight is refused as AlreadyRunning and issues no request; a trigger on a
\* bound flowsheet with no request in flight starts a run.
C7_SecondTriggerRefused ==
  [][runSimulation
       => IF sims # <<>>
          THEN lastOp' = "runSimulation:AlreadyRunning" /\ sims' = sims
          ELSE flowsheetId # Null
                 => /\ lastOp' = "runSimulation:started"
                    /\ sims' = <<flowsheetId>>]_vars

\* A second run was started after the first one resolved or rejected.
C7_Witness ==
  /\ lastOp = "runSimulation:started"
  /\ runs = 2
  /\ Len(sims) = 1

C9_SnapshotsByValue ==
  [][\A i \in 1..Len(history) :
       (i <= Len(history') /\ history'[i] = history[i])
         => Resolve(history'[i].nodes, heap') = Resolve(history[i].nodes, heap)
    ]_vars

\* C10: saveChanges with a dirty buffer writes the buffer onto the selected
\* node, appends one snapshot, issues a push when a flowsheet is bound, and
\* clears the dirty flag.
C10_SaveIsOneCommit ==
  [][saveChanges
       => /\ heap'[selectedNode[1].data].name = name
          /\ heap'[selectedNode[1].data].parameters = parameters
          /\ Len(history') = Len(history) + 1
          /\ historyIndex' = historyIndex + 1
          /\ flowsheetId # Null => Len(puts') = Len(puts) + 1
          /\ ~hasChanges']_vars

\* C11: every structural change of the graph (a unit added, a connection
\* added, a node or an edge removed, a saved edit of a node's parameters or
\* name) appends exactly one snapshot: the history is cut after the cursor,
\* one snapshot is added and the cursor moves onto it.
C11_MutationIsCommit ==
  [][(\/ addUnit
      \/ onConnect /\ edges' # edges
      \/ removeNode
      \/ removeEdge
      \/ saveChanges)
       => /\ Len(history') = historyIndex + 2
          /\ historyIndex' = historyIndex + 1]_vars

\* The buffer shows the name and the parameters of `sel` as they are stored
\* in its data object (nothing when nothing is selected).
BufferShows(sel, hp, params, nm) ==
  IF sel = Null
  THEN params = NoParams /\ nm = <<>>
  ELSE params = hp[sel[1].data].parameters /\ nm = hp[sel[1].data].name

\* C12: typing into the buffer never changes what is stored for a node, and
\* resetChanges leaves the buffer equal to the name and parameters stored for
\* the selected node, with hasChanges false, without storing anything.
C12_ResetYieldsCommitted ==
  [][/\ (handleParameterChange \/ handleNameChange) => heap' = heap
     /\ resetChanges => /\ heap' = heap
                        /\ selectedNode' = selectedNode
                        /\ BufferShows(selectedNode, heap, parameters', name')
                        /\ ~hasChanges']_vars

\* A reset that dropped a buffer whose name and parameters had both been edited.
C12_Witness ==
  /\ lastOp = "resetChanges"
  /\ track.phase = "reset"
  /\ track.pre[1] # parameters
  /\ track.pre[2] # name
  /\ ~hasChanges

\* C13: selecting another node, or clicking the pane, while the buffer has
\* unsaved changes drops them: hasChanges is false afterwards, the buffer
\* shows what is stored for the newly selected node (nothing after a pane
\* click), and what is stored for any node is what it was.
C13_SelectionDiscardsBuffer ==
  [][((onNodeClick \/ onPaneClick) /\ hasChanges /\ selectedNode' # selectedNode)
       => /\ ~hasChanges'
          /\ heap' = heap
          /\ BufferShows(selectedNode', heap, parameters', name')]_vars

\* A click on another node dropped a dirty buffer.
C13_Witness ==
  /\ lastOp = "onNodeClick"
  /\ track.phase = "discarded"
  /\ selectedNode # Null
  /\ track.post # selectedNode
  /\ track.pre # <<heap[track.post[1].data].parameters,
                   heap[track.post[1].data].name>>

\* The edges that arrive at the inlet port `port` of unit `unit` in the request
\* body built from the live graph.
Incoming(unit, port) ==
  {i \in 1..Len(edges) :
     Connections(edges)[i].to_unit = unit /\ Connections(edges)[i].to_port = port}

\* C14: a connection to an inlet port that already has an incoming edge is
\* refused and leaves nodes and edges as they were; no inlet port has more
\* than one incoming edge.
C14_OneEdgePerInlet ==
  [][/\ (onConnect /\ edges' # edges)
          => Incoming(edges'[Len(edges')].target, "in1") = {}
     /\ \A i, j \in 1..Len(edges') :
          (/\ Connections(edges')[i].to_unit = Connections(edges')[j].to_unit
           /\ Connections(edges')[i].to_port = Connections(edges')[j].to_port)
            => i = j]_vars

\* C15: a connection from a node to itself is refused; no edge of the graph
\* has the same node as source and target.
C15_NoSelfLoop == \A i \in 1..Len(edges) : edges[i].source # edges[i].target

\* C17: the ids of the nodes of the graph are pairwise different.
C17_NodeIdsUnique ==
  \A i, j \in 1..Len(nodes) : nodes[i].id = nodes[j].id => i = j

\* C16: removing node n removes n and exactly the edges whose source or
\* target is n; the other nodes, their data and the other edges stay as they
\* were, in their order.
C16_RemoveNodeFrame ==
  [][(lastOp' = "removeNode" /\ removeNode)
       => \E n \in NodeIds(nodes) :
            /\ n \notin NodeIds(nodes')
            /\ nodes' = SelectSeq(nodes, LAMBDA m : m.id # n)
            /\ heap' = heap
            /\ \A i \in 1..Len(edges) :
                 (edges[i].source # n /\ edges[i].target # n)
                   <=> (\E j \in 1..Len(edges') : edges'[j] = edges[i])
            /\ \A j \in 1..Len(edges') : \E i \in 1..Len(edges) :
                 edges[i] = edges'[j]
            /\ Len(edges') = Cardinality({i \in 1..Len(edges) :
                                 edges[i].source # n /\ edges[i].target # n})]_vars

\* A node was removed while another node and an edge that does not touch the
\* removed node stayed.
C16_Witness ==
  /\ lastOp = "removeNode"
  /\ track.phase = "removed"
  /\ Len(track.pre.nodes) > Len(nodes)
  /\ Len(nodes) > 0
  /\ Len(edges) > 0
  /\ Len(track.pre.edges) = Len(edges)

\* The stream ids of the request body built from an edge array.
Streams(eds) ==
  LET connections == Connections(eds)
  IN {connections[i].stream_id : i \in 1..Len(connections)}

C19_NoFlowsheetRefused ==
  [][(runSimulation /\ flowsheetId = Null)
       => /\ lastOp' = "runSimulation:NoFlowsheet"
          /\ sims' = sims
          /\ runs' = runs
          /\ ~isSimulating'
          /\ simulationResults' = simulationResults]_vars

\* A trigger was refused for want of a flowsheet id.
C19_Witness ==
  /\ lastOp = "runSimulation:NoFlowsheet"
  /\ flowsheetId = Null
  /\ sims = <<>>
  /\ ~isSimulating

\* C20: while a run is in progress no result is visible: starting a run
\* clears the result of the run before it.
C20_NoResultWhileRunning ==
  /\ isSimulating => simulationResults = Null
  /\ sims # <<>> => simulationResults = Null

\* A second run is in progress after a first one delivered its result.
C20_Witness ==
  /\ isSimulating
  /\ runs = 2
  /\ sims # <<>>
  /\ simulationResults = Null

\* ------------------------------------------------------ ApiService.request
HttpStatuses == {200, 201, 400, 404, 422, 500, 503}

\* Response.ok of the Fetch API.
ok(status) == status >= 200 /\ status <= 299

NetworkErrorMessage == "Network error - please check your connection"

\* What a response body can be: a JSON object whose message and detail are
\* given ("" stands for an absent or empty field, both falsy), the JSON value
\* null, text that is not JSON, or nothing at all.
Bodies ==
  {[kind |-> "object", message |-> m, detail |-> d] :
     m \in {"", "Flowsheet not found"}, d \in {"", "Simulation failed"}}
  \cup {[kind |-> k, message |-> "", detail |-> ""] :
          k \in {"null", "text", "empty"}}

\* What the fetch promise can settle with: a response, or a rejection with a
\* TypeError when no response arrived.
Responses ==
  {[settled |-> "fulfilled", status |-> s, body |-> b] :
     s \in HttpStatuses, b \in Bodies}
  \cup {[settled |-> "rejected", status |-> 0,
         body |-> [kind |-> "empty", message |-> "", detail |-> ""]]}

ApiError(message, status) ==
  [kind |-> "ApiError", message |-> message, status |-> status]

\* Response.json(): consumes the body; rejects with a SyntaxError unless the
\* body is JSON.
json(body) == IF body.kind \in {"object", "null"} THEN "value" ELSE "SyntaxError"

\* The rest of request once fetch has settled.  For a response that is not ok
\* the message is read with response.json(); when that throws (no JSON), or
\* when reading a field of null throws, the inner catch calls response.text()
\* on the body response.json() has consumed, which rejects with a TypeError;
\* the outer catch turns every TypeError into the network error.  For an ok
\* response the promise of response.json() is returned without await, so its
\* SyntaxError is not caught here.
request(r) ==
  IF r.settled = "rejected"
  THEN ApiError(NetworkErrorMessage, 0)
  ELSE IF ~ok(r.status)
       THEN IF r.body.kind = "object"
            THEN ApiError(IF r.body.message # "" THEN r.body.message
                          ELSE IF r.body.detail # "" THEN r.body.detail
                          ELSE "HTTP " \o ToString(r.status),
                          r.status)
            ELSE ApiError(NetworkErrorMessage, 0)
       ELSE IF json(r.body) = "value"
            THEN [kind |-> "value", message |-> "", status |-> r.status]
            ELSE [kind |-> "SyntaxError", message |-> "", status |-> r.status]

\* The await of fetch settles.
fetchSettled ==
  \E r \in Responses :
    /\ apiResponse' = <<r>>
    /\ UNCHANGED apiOutcome
    /\ UNCHANGED reloading
    /\ lastOp' = "fetch"
    /\ track' = NoTrack
    /\ UNCHANGED <<canvasVars, now, editorVars, flowsheetId, netVars>>

\* request settles: it returns the parsed body or throws.
requestSettled ==
  /\ apiResponse # Null
  /\ apiOutcome' = <<request(apiResponse[1])>>
  /\ apiResponse' = Null
  /\ UNCHANGED reloading
  /\ lastOp' = "request"
  /\ track' = [NoTrack EXCEPT !.phase = "request", !.pre = apiResponse]
  /\ UNCHANGED <<canvasVars, now, editorVars, flowsheetId, netVars>>

NextApi ==
  \/ fetchSettled
  \/ requestSettled

SpecApi == Init /\ [][NextApi]_vars

\* C23: every response that is not 2xx, whatever its body, is raised as an
\* ApiError carrying that response's HTTP status, and only a fetch that got no
\* response is raised with status 0 and the network error message.
C23_FailureKindsDistinguished ==
  [][requestSettled =>
       LET r == apiResponse[1]
           thrown == apiOutcome'[1]
       IN /\ (r.settled = "fulfilled" /\ ~ok(r.status))
               => (thrown.kind = "ApiError" /\ thrown.status = r.status)
          /\ (thrown.kind = "ApiError"
              /\ (thrown.status = 0 \/ thrown.message = NetworkErrorMessage))
               => r.settled = "rejected"]_vars

\* C21: a run that failed shows as failed: what the catch of runSimulation
\* hands over has status failed, a message that is not empty and empty units
\* and streams, and whenever the result held is a failed one, however it
\* arrived, the panel shows the failed view with a message that is not empty
\* and no numbers, and no run is in progress.
C21_FailureShown ==
  [][/\ runSimulationRejected =>
          /\ simulationResults' # Null
          /\ simulationResults'[1].status = "failed"
          /\ simulationResults'[1].error # ""
          /\ simulationResults'[1].units = "{}"
          /\ simulationResults'[1].streams = "{}"
          /\ ~isSimulating'
     /\ (simulationResults' # Null /\ simulationResults'[1].status = "failed") =>
          /\ ~isSimulating'
          /\ ResultsPanel(simulationResults', isSimulating').view = "failed"
          /\ ResultsPanel(simulationResults', isSimulating').error # ""
          /\ ResultsPanel(simulationResults', isSimulating').units = "{}"
          /\ ResultsPanel(simulationResults', isSimulating').streams = "{}"]_vars

\* A request of a second run was rejected and its failure is on show.
C21_Witness ==
  /\ lastOp = "runSimulationRejected"
  /\ runs = 2
  /\ simulationResults # Null
  /\ simulationResults[1].status = "failed"
  /\ simulationResults[1].simulation_id = "error"
  /\ ~isSimulating

\* C22: a push or a pull that failed leaves the local graph as it is: nodes
\* and their data, edges, history and cursor are what they were.
C22_FailedSyncKeepsGraph ==
  [][(/\ lastOp' \in {"updateFlowsheetRejected", "loadFlowsheetRejected"}
      /\ (updateFlowsheetRejected \/ loadFlowsheetRejected))
       => UNCHANGED <<nodes, edges, heap, history, historyIndex>>]_vars

\* A push failed while the canvas holds a node that no snapshot holds yet.
C22_Witness ==
  /\ lastOp = "updateFlowsheetRejected"
  /\ nodes # <<>>
  /\ historyIndex >= 0
  /\ history[historyIndex + 1].nodes # nodes

\* C24: adding a unit appends exactly one node and leaves the edges, the
\* nodes there were and their data as they are; on an empty flowsheet it
\* leaves one node and no edge.
C24_AddUnitFrame ==
  [][(lastOp' = "addUnit" /\ addUnit)
       => /\ Len(nodes') = Len(nodes) + 1
          /\ SubSeq(nodes', 1, Len(nodes)) = nodes
          /\ SubSeq(heap', 1, Len(heap)) = heap
          /\ edges' = edges
          /\ (nodes = <<>> /\ edges = <<>>)
               => (Len(nodes') = 1 /\ Len(edges') = 0)]_vars

\* A unit was added to a flowsheet that held a node and an edge.
C24_Witness ==
  /\ lastOp = "addUnit"
  /\ Len(nodes) = 2
  /\ Len(edges) = 1

\* C25: once every push in flight has been answered, the backend holds what
\* the push issued last carried: a push issued earlier is never applied after
\* one issued later.
C25_LastPushWins ==
  (puts = <<>> /\ lastPush # Null)
    => backend[lastPush[1].id[2]] =
         [units |-> lastPush[1].units,
          connections |-> lastPush[1].connections]

\* C26: the cursor is valid after every step: historyIndex is -1 exactly when
\* the history is empty and lies in 0..length-1 otherwise, and a step that
\* commits leaves it on the last snapshot, also when two commits ran with the
\* historyIndex one render captured.
C26_CursorValid ==
  [][/\ (history' = <<>>) <=> (historyIndex' = -1)
     /\ history' # <<>> =>
          (0 <= historyIndex' /\ historyIndex' <= Len(history') - 1)
     /\ lastOp' \in {"addUnit", "addUnitBatched", "onConnect"} =>
          historyIndex' = Len(history') - 1]_vars

\* C27: undo at cursor 0 or with an empty history, and redo on the last
\* snapshot, do nothing: nodes, node data, edges, history and cursor stay.
C27_EdgeOfHistoryNoOp ==
  [][/\ (lastOp' = "undo:no-op" /\ undo /\ historyIndex <= 0)
          => UNCHANGED <<nodes, edges, heap, history, historyIndex>>
     /\ (lastOp' = "redo:no-op" /\ redo /\ historyIndex >= Len(history) - 1)
          => UNCHANGED <<nodes, edges, heap, history, historyIndex>>]_vars

\* undo was asked for at cursor 0 of a history that holds a snapshot, on a
\* canvas that differs from that snapshot.
C27_Witness ==
  /\ lastOp = "undo:no-op"
  /\ historyIndex = 0
  /\ history # <<>>
  /\ nodes # history[1].nodes

\* C28: a drag is no commit: however many nodes are moved however often, no
\* snapshot is stored and the cursor stays.
C28_MoveIsNoCommit ==
  [][(lastOp' = "moveNode" /\ moveNode)
       => UNCHANGED <<history, historyIndex>>]_vars

\* Both nodes of the canvas have been dragged away from where they were
\* dropped, and the history holds the two commits that added them.
C28_Witness ==
  /\ lastOp = "moveNode"
  /\ Len(nodes) = 2
  /\ \A i \in 1..Len(nodes) : nodes[i].position # InitialPosition
  /\ Len(history) = 2
  /\ historyIndex = 1

\* C29: typing a parameter value or a name changes the buffer alone and marks
\* it dirty: the nodes, their data, the edges, the history, the cursor, the
\* selection, the backend's copy and the requests in flight stay as they are.
C29_EditStaysInBuffer ==
  [][(/\ lastOp' \in {"handleParameterChange", "handleNameChange"}
      /\ (handleParameterChange \/ handleNameChange))
       => /\ hasChanges'
          /\ UNCHANGED <<nodes, edges, heap, history, historyIndex,
                         selectedNode, backend, puts>>]_vars

\* A name and a parameter value have been typed and neither is on the node.
C29_Witness ==
  /\ lastOp = "handleNameChange"
  /\ hasChanges
  /\ selectedNode # Null
  /\ name # heap[selectedNode[1].data].name
  /\ parameters # heap[selectedNode[1].data].parameters

\* C30: a unit that has just been added has no parameters, whatever its
\* type: defaults come only when they are asked for.
C30_NewUnitHasNoParameters ==
  [][(lastOp' = "addUnit" /\ addUnit)
       => heap'[nodes'[Len(nodes')].data].parameters = NoParams]_vars

\* The state of the run as the user sees it.
RunState(simulating, results) ==
  IF simulating THEN "Running"
  ELSE IF results = Null THEN "Idle"
  ELSE IF results[1].status = "failed" THEN "Failed"
  ELSE "Completed"

\* C31: the run state moves only from Idle to Running, from Running to
\* Completed or Failed, and from there to Running again by a new trigger;
\* isSimulating is set exactly while a simulate request is outstanding, and
\* the step that resolves or rejects the request clears it.
C31_RunStateMachine ==
  [][/\ \/ RunState(isSimulating', simulationResults') =
             RunState(isSimulating, simulationResults)
        \/ <<RunState(isSimulating, simulationResults),
             RunState(isSimulating', simulationResults')>>
             \in {<<"Idle", "Running">>, <<"Running", "Completed">>,
                  <<"Running", "Failed">>, <<"Completed", "Running">>,
                  <<"Failed", "Running">>}
     /\ isSimulating' <=> (sims' # <<>>)
     /\ (/\ lastOp' \in {"runSimulationResolved", "runSimulationRejected"}
         /\ (runSimulationResolved \/ runSimulationRejected))
          => ~isSimulating']_vars

\* A second run has completed: the run before it did not block its trigger.
C31_Witness ==
  /\ lastOp = "runSimulationResolved"
  /\ runs = 2
  /\ ~isSimulating
  /\ sims = <<>>
  /\ simulationResults # Null
  /\ simulationResults[1].status = "completed"

\* C32: there is no automatic retry: a simulate request is issued only by the
\* step that accepts a trigger, one request for one trigger, so the step that
\* settles a request, failed or not, issues none.
C32_NoAutomaticRetry ==
  [][/\ (\/ Len(sims') > Len(sims)
         \/ \E i \in 1..Len(sims') : i > Len(sims) \/ sims'[i] # sims[i])
          => \/ lastOp' = "runSimulation:started" /\ runs' = runs + 1
                /\ sims' = Append(sims, flowsheetId)
             \/ Len(sims') = Len(sims) - 1
     /\ runs' # runs => Len(sims') = Len(sims) + 1
     /\ (/\ lastOp' \in {"runSimulationResolved", "runSimulationRejected"}
         /\ (runSimulationResolved \/ runSimulationRejected))
          => Len(sims') = Len(sims) - 1]_vars

\* A run has failed, the user went on editing, and no request was issued.
C32_Witness ==
  /\ lastOp = "addUnit"
  /\ simulationResults # Null
  /\ simulationResults[1].status = "failed"
  /\ sims = <<>>
  /\ runs = 1

\* The input would be accepted by sendMessage.
Accepted ==
  /\ trim(input) # ""
  /\ ~isLoading
  /\ length(trim(input)) <= MaxMessageLength

C34_InvalidMessageRefused ==
  [][(/\ lastOp' = "sendMessage"
      /\ sendMessage
      /\ ~isLoading
      /\ (trim(input) = "" \/ length(trim(input)) > MaxMessageLength))
       => /\ chats' = chats
          /\ messages' = messages
          /\ ~isLoading']_vars

\* A message that is too long was refused.
C34_Witness ==
  /\ lastOp = "sendMessage"
  /\ length(trim(input)) > MaxMessageLength
  /\ chats = <<>>
  /\ ~isLoading
  /\ UserMessages(messages) = {}

C36_SelectionIsLive ==
  selectedNode # Null => selectedNode[1].id \in NodeIds(nodes)

\* C37: applying the answer of a pull keeps what the canvas held: every node
\* and every edge that was there before the answer arrived is there after.
C37_PullKeepsLocalEdits ==
  [][(lastOp' = "loadFlowsheetResolved" /\ loadFlowsheetResolved)
       => /\ \A id \in NodeIds(nodes) : id \in NodeIds(nodes')
          /\ \A i \in 1..Len(edges) :
               \E j \in 1..Len(edges') : edges'[j].id = edges[i].id]_vars

\* What a pull makes of the body that a push of the live graph carries.
PulledNodes == flowNodes(Units(nodes, heap), 0)

PulledData == flowData(Units(nodes, heap))

PulledEdges == flowEdges(Connections(edges))

\* C38: a pull of what a push of the live graph carried gives the same node
\* ids, unit types, names, positions and parameters, and the same edge ids
\* with the same source and target nodes.
C38_PushPullRoundTrip ==
  /\ Len(PulledNodes) = Len(nodes)
  /\ \A i \in 1..Len(nodes) :
       /\ PulledNodes[i].id = nodes[i].id
       /\ PulledNodes[i].position = nodes[i].position
       /\ PulledData[PulledNodes[i].data].unitType = heap[nodes[i].data].unitType
       /\ PulledData[PulledNodes[i].data].name = heap[nodes[i].data].name
       /\ PulledData[PulledNodes[i].data].parameters =
            heap[nodes[i].data].parameters
  /\ Len(PulledEdges) = Len(edges)
  /\ \A i \in 1..Len(edges) :
       /\ PulledEdges[i].id = edges[i].id
       /\ PulledEdges[i].source = edges[i].source
       /\ PulledEdges[i].target = edges[i].target

\* The graph holds a column with its parameters, a node that was dragged and
\* an edge between two nodes that leaves a handle with an id: the pull keeps
\* the listed fields and gives the node type and the handle up.
C38_Witness ==
  /\ \E i \in 1..Len(nodes) :
       /\ nodes[i].type = "distillationColumn"
       /\ PulledNodes[i].type # nodes[i].type
       /\ heap[nodes[i].data].parameters # NoParams
  /\ \E i \in 1..Len(edges) :
       /\ edges[i].source # edges[i].target
       /\ edges[i].sourceHandle # NoHandle
       /\ PulledEdges[i].sourceHandle = NoHandle
  /\ \E i \in 1..Len(nodes) : nodes[i].position # InitialPosition

====
